---- MODULE Spec2Model ----
(***************************************************************************)
(* Urban plot analysis pipeline (src/spb-land-finder/pipeline.py) with the *)
(* three gateway clients it drives (src/tools/urban-plot-analysis).        *)
(*                                                                         *)
(* Python values are modelled as tagged records [t, n, s]: None, bool,     *)
(* number and str.  A str is a sequence of tokens, so that str.replace and *)
(* the search for a path separator are computed, not assumed.  A dict is a *)
(* function whose DOMAIN is the set of keys present.                       *)
(***************************************************************************)
EXTENDS Integers, Sequences, FiniteSets, TLC

VARIABLES
    pc,          \* "idle" | "analyzed" | "scanning" | "scanned" | "ranked"
    boot,        \* an entry-point script from launch to pipeline work or stop
    last,        \* the last direct analyze_single_plot call: arguments, world, outcome
    op,          \* the running area operation: its name and its min_area argument
    query,       \* analyze_area: the HTTP exchange of the bounding-box query
    plots,       \* analyze_area: the list returned by search_plots_in_area
    idx,         \* analyze_area: number of records of plots[:max_plots] visited
    max_plots,   \* analyze_area: the max_plots argument
    results,     \* analyze_area: the results list built so far
    log,         \* analyze_area: what the loop did, record by record
    area_out,    \* what analyze_area returned, its vacant subset and its report
    suitable,    \* what find_suitable_plots returned (or that it raised)
    outdir,      \* the output directory: files in it, files that were overwritten
    now          \* the clock, in whole seconds: what int(time.time()) returns

vars == <<pc, boot, last, op, query, plots, idx, max_plots, results, log, area_out,
          suitable, outdir, now>>

(***************************************************************************)
(* Python values                                                           *)
(***************************************************************************)
PyNone == [t |-> "null", n |-> 0, s |-> <<>>]
PyBool(b) == [t |-> "bool", n |-> IF b THEN 1 ELSE 0, s |-> <<>>]
PyNum(n) == [t |-> "num", n |-> n, s |-> <<>>]
PyStr(s) == [t |-> "str", n |-> 0, s |-> s]
PyTrue == PyBool(TRUE)
PyFalse == PyBool(FALSE)

\* bool(v): None, False, 0 and '' are falsy, everything else is truthy
Truthy(v) ==
    CASE v.t = "null" -> FALSE
      [] v.t = "bool" -> v.n = 1
      [] v.t = "num"  -> v.n # 0
      [] v.t = "str"  -> v.s # <<>>

\* v >= w for a number w: bools compare as 0/1, None and str raise TypeError
CanCompare(v) == v.t \in {"num", "bool"}

\* dict.get(k, default)
Get(d, k, default) == IF k \in DOMAIN d THEN d[k] ELSE default

\* the dict with the keys of full whose value is not the marker Absent
Absent == [t |-> "absent", n |-> 0, s |-> <<>>]
MkDict(full) == [k \in {j \in DOMAIN full : full[j] # Absent} |-> full[k]]
EmptyDict == [k \in {} |-> PyNone]

\* str.replace(old, new) on single tokens
RECURSIVE Replace(_, _, _)
Replace(s, old, new) ==
    IF s = <<>> THEN <<>>
    ELSE <<IF Head(s) = old THEN new ELSE Head(s)>> \o Replace(Tail(s), old, new)

(***************************************************************************)
(* RosreestrClient (rosreestr_client.py)                                   *)
(*                                                                         *)
(* A raw record is a dict with optional keys attrs, center, extent.        *)
(*   attrs  : PyNone or [t |-> "dict", d |-> dict of Python values]        *)
(*   center : [form |-> "list" | "dict" | "bad", lon, lat]                 *)
(*   extent : [form |-> "dict" | "bad", xmin, xmax, ymin, ymax]            *)
(* An HTTP exchange is [kind |-> "error"] (timeout, HTTP status, body that *)
(* is not JSON) or [kind |-> "json", hit |-> the records the registry has].*)
(***************************************************************************)
None == [some |-> FALSE]
Some(v) == [some |-> TRUE, v |-> v]

\* body of GET features/1?text=lat lon
PointBody(http) == [features |-> http.hit]
\* body of GET features/1/<cadastral number>
IdBody(http) == IF http.hit = <<>> THEN EmptyDict ELSE http.hit[1]

get_plot_by_coordinates(lat, lon, http) ==
    IF http.kind = "error" THEN None
    ELSE LET data == PointBody(http) IN
         IF Get(data, "features", <<>>) # <<>> THEN Some(data.features[1])
         ELSE None

get_plot_by_cadastral_number(cadastral_number, http) ==
    IF http.kind = "error" THEN None
    ELSE LET data == IdBody(http) IN
         IF DOMAIN data # {} THEN Some(data) ELSE None

\* (lat, lon) or None; any exception while reading center or extent gives None
get_plot_coordinates(plot_data) ==
    IF "center" \in DOMAIN plot_data THEN
        LET center == plot_data["center"] IN
        IF center.form = "bad" THEN None
        ELSE Some([lat |-> center.lat, lon |-> center.lon])
    ELSE IF "extent" \in DOMAIN plot_data THEN
        LET extent == plot_data["extent"] IN
        IF extent.form = "bad" THEN None
        ELSE Some([lat |-> (extent.ymin + extent.ymax) \div 2,
                   lon |-> (extent.xmin + extent.xmax) \div 2])
    ELSE None

NA == PyStr(<<"N", "/", "A">>)

\* the details dict, or {} when attrs is not a dict (attrs.get raises)
get_plot_details(plot_data) ==
    IF "attrs" \in DOMAIN plot_data /\ plot_data["attrs"].t # "dict" THEN EmptyDict
    ELSE LET attrs == IF "attrs" \in DOMAIN plot_data THEN plot_data["attrs"].d
                      ELSE EmptyDict
         IN [cadastral_number |-> Get(attrs, "cn", NA),
             area             |-> Get(attrs, "area_value", PyNum(0)),
             area_unit        |-> Get(attrs, "area_unit", PyStr(<<"m2">>)),
             category         |-> Get(attrs, "category_type", NA),
             permitted_use    |-> Get(attrs, "util_by_doc", NA),
             address          |-> Get(attrs, "address", NA),
             cost             |-> Get(attrs, "cad_cost", PyNum(0))]

(***************************************************************************)
(* The output directory.  self.output_dir and its images subdirectory are  *)
(* created by the constructor; open(path, 'w') fails when the directory    *)
(* part of path does not exist, or when the disk refuses the write.        *)
(***************************************************************************)
OutputDir == <<"output">>
ImagesDir == OutputDir \o <<"/", "images">>
ExistingDirs == {OutputDir, ImagesDir}

RECURSIVE DirOf(_)
DirOf(path) ==
    IF path = <<>> THEN <<>>
    ELSE IF path[Len(path)] = "/" THEN SubSeq(path, 1, Len(path) - 1)
    ELSE DirOf(SubSeq(path, 1, Len(path) - 1))

CanOpenForWrite(path, disk) == disk = "ok" /\ DirOf(path) \in ExistingDirs

\* open(path, 'w') for each path in turn: a path that names an existing file
\* truncates it.  calls counts the operations finished in this directory.
EmptyDir == [files |-> {}, replaced |-> {}, calls |-> 0]

RECURSIVE WriteFiles(_, _)
WriteFiles(dir, paths) ==
    IF paths = <<>> THEN dir
    ELSE WriteFiles([dir EXCEPT
                        !.files = @ \cup {Head(paths)},
                        !.replaced = @ \cup (dir.files \cap {Head(paths)})],
                    Tail(paths))

\* seconds spent in time.sleep(1) by a call with this trace
Elapsed(trace) == Cardinality({i \in 1..Len(trace) : trace[i] = "sleep_1"})

(***************************************************************************)
(* YandexMapsClient.get_satellite_image (yandex_maps_client.py)            *)
(* http: "network_error" | "not_image" | "image".  Returns the bytes or    *)
(* None, and the path written, if any.                                     *)
(***************************************************************************)
ImageBytes == PyStr(<<"png">>)

get_satellite_image(lat, lon, save_path, http, disk) ==
    IF http = "network_error" THEN [ret |-> None, wrote |-> <<>>]
    ELSE IF http = "not_image" THEN [ret |-> None, wrote |-> <<>>]
    ELSE IF save_path # <<>> /\ ~CanOpenForWrite(save_path, disk)
         THEN [ret |-> None, wrote |-> <<>>]
    ELSE [ret |-> Some(ImageBytes),
          wrote |-> IF save_path # <<>> THEN <<save_path>> ELSE <<>>]

(***************************************************************************)
(* ClaudeVisionClient (claude_vision_client.py)                            *)
(* api: [kind |-> "error"] (the request raises) or [kind |-> "text",       *)
(* json, obj, kw]: a reply whose first brace-delimited block is absent     *)
(* (json = "none"), is not valid JSON ("bad") or parses to the dict obj    *)
(* ("ok"); kw is the set of keyword stems found in the lower-cased reply.  *)
(* Confidence levels: vysokiy (high), sredniy (medium), nizkiy (low).      *)
(***************************************************************************)
High == PyStr(<<"vysokiy">>)
Medium == PyStr(<<"sredniy">>)
Low == PyStr(<<"nizkiy">>)

DegradedJudgement(marker) ==
    MkDict([error        |-> IF marker = "error" THEN PyStr(<<"exception">>) ELSE Absent,
            raw_response |-> IF marker = "raw_response" THEN PyStr(<<"reply">>) ELSE Absent,
            is_occupied  |-> PyNone,
            confidence   |-> Low])

_parse_response(reply) ==
    IF reply.json = "ok" THEN reply.obj
    ELSE IF reply.json = "bad" THEN DegradedJudgement("raw_response")
    ELSE [is_occupied              |-> PyBool("da" \in reply.kw /\ "zastroika" \in reply.kw),
          confidence               |-> Medium,
          description              |-> PyStr(<<"reply">>),
          buildings_detected       |-> PyBool("zdani" \in reply.kw \/ "stroeni" \in reply.kw),
          vegetation_level         |-> PyStr(<<"unknown">>),
          suitable_for_development |-> PyBool("svobod" \in reply.kw \/ "prigod" \in reply.kw),
          recommendations          |-> PyStr(<<"check on site">>)]

analyze_plot_occupancy(image_data, plot_details, api) ==
    IF api.kind = "error" THEN DegradedJudgement("error")
    ELSE _parse_response(api)

(***************************************************************************)
(* UrbanPlotAnalysisPipeline.analyze_single_plot (pipeline.py)             *)
(*                                                                         *)
(* env is what the outside world answers during one call:                  *)
(*   reg  the registry's HTTP exchange       img   the imagery exchange    *)
(*   disk_img  "ok" | "fail" (image file)    api   the vision-model reply  *)
(*   disk_res  "ok" | "fail" (result file)                                 *)
(* An outcome is what the body does: it returns a result or raises, after  *)
(* the external steps listed in trace and the file writes listed in writes.*)
(***************************************************************************)
Return(result, trace, writes) ==
    [kind |-> "return", result |-> result, exc |-> "", trace |-> trace, writes |-> writes]
Raise(exc, trace, writes) ==
    [kind |-> "raise", result |-> EmptyDict, exc |-> exc, trace |-> trace, writes |-> writes]

\* mutant: the not-found branch reports a failure
NotFoundResultAsError ==
    [status |-> "error", error |-> "Plot not found in cadastral registry"]
NotFoundResult ==
    [status |-> "not_found", error |-> "Plot not found in cadastral registry"]
NoCoordinatesResult ==
    [status |-> "error", error |-> "Could not extract coordinates"]
\* mutant: the imagery failure drops what the registry step learned
ImageryFailureResultBare(plot_details) ==
    [status |-> "error", error |-> "Failed to get satellite image"]
ImageryFailureResult(plot_details) ==
    [status |-> "error", error |-> "Failed to get satellite image",
     plot_details |-> plot_details]
\* mutant: a judgement that carries an error marker is left out of the result
SuccessResultOmitFailedAnalysis(plot_details, lat, lon, image_path, analysis_result) ==
    IF "error" \in DOMAIN analysis_result
    THEN [status |-> "success", timestamp |-> "now", plot_details |-> plot_details,
          coordinates |-> [lat |-> lat, lon |-> lon], satellite_image |-> image_path]
    ELSE [status |-> "success", timestamp |-> "now", plot_details |-> plot_details,
          coordinates |-> [lat |-> lat, lon |-> lon], satellite_image |-> image_path,
          analysis |-> analysis_result]
SuccessResult(plot_details, lat, lon, image_path, analysis_result) ==
    [status |-> "success", timestamp |-> "now", plot_details |-> plot_details,
     coordinates |-> [lat |-> lat, lon |-> lon], satellite_image |-> image_path,
     analysis |-> analysis_result]
\* mutant: a raised exception is reported as a missing record
ExceptionResultNotFound(exc) == [status |-> "not_found", error |-> exc]
ExceptionResult(exc) == [status |-> "error", error |-> exc]

ResultFileName(identifier) ==
    OutputDir \o <<"/", "result_">>
        \o Replace(Replace(identifier, ":", "_"), "/", "_") \o <<".json">>

\* TRUE when the file was written, FALSE when open or write raised
_save_result(result, identifier, disk) == CanOpenForWrite(ResultFileName(identifier), disk)

ImagePath(plot_details) ==
    ImagesDir \o <<"/", "plot_">>
        \o Replace(Get(plot_details, "cadastral_number", PyStr(<<"unknown">>)).s, ":", "_")
        \o <<".png">>

\* mutant: the model is asked first and the delay is taken afterwards
ClassificationThenPacing == <<"classifier", "sleep_1">>
\* lines 111-119: time.sleep(1), then analyze_plot_occupancy
PacedClassification == <<"sleep_1", "classifier">>

\* Lines 63-136: the body of the try block
AnalyzeBody(cadastral_number, lat, lon, env) ==
    IF ~Truthy(cadastral_number) /\ ~(Truthy(lat) /\ Truthy(lon))
    THEN Raise("Either cadastral_number or (lat, lon) must be provided", <<>>, <<>>)
    ELSE
    LET plot_data == IF Truthy(cadastral_number)
                     THEN get_plot_by_cadastral_number(cadastral_number, env.reg)
                     ELSE get_plot_by_coordinates(lat, lon, env.reg)
        t1 == <<IF Truthy(cadastral_number) THEN "registry_by_number"
                                            ELSE "registry_by_point">>
    IN
    IF ~plot_data.some \/ DOMAIN plot_data.v = {}
    THEN Return(NotFoundResult, t1, <<>>)
    ELSE
    LET plot_details == get_plot_details(plot_data.v)
        coords == get_plot_coordinates(plot_data.v)
        t2 == t1 \o <<"extract_coordinates">>
    IN
    IF ~coords.some THEN Return(NoCoordinatesResult, t2, <<>>)
    ELSE IF Get(plot_details, "cadastral_number", PyStr(<<"unknown">>)).t # "str"
    THEN Raise("object has no attribute 'replace'", t2, <<>>)
    ELSE
    LET image_path == ImagePath(plot_details)
        image == get_satellite_image(coords.v.lat, coords.v.lon, image_path,
                                     env.img, env.disk_img)
        t3 == t2 \o <<"imagery">>
    IN
    IF ~image.ret.some THEN Return(ImageryFailureResult(plot_details), t3, image.wrote)
    ELSE
    LET analysis_result == analyze_plot_occupancy(image.ret.v, plot_details, env.api)
        t4 == t3 \o PacedClassification
        result == SuccessResult(plot_details, coords.v.lat, coords.v.lon,
                                image_path, analysis_result)
        identifier == IF Truthy(cadastral_number) THEN cadastral_number.s
                      ELSE <<ToString(coords.v.lat), "_", ToString(coords.v.lon)>>
    IN
    IF ~_save_result(result, identifier, env.disk_res)
    THEN Raise("cannot write result file", t4 \o <<"save_result">>, image.wrote)
    ELSE Return(result, t4 \o <<"save_result">>,
                image.wrote \o <<ResultFileName(identifier)>>)

\* mutant: only the ValueError of a missing identity is caught
CatchValueErrorOnly(outcome) ==
    IF outcome.kind = "raise"
       /\ outcome.exc = "Either cadastral_number or (lat, lon) must be provided"
    THEN Return(ExceptionResult(outcome.exc), outcome.trace, outcome.writes)
    ELSE outcome

\* mutant: no except clause, the exception leaves the call
CatchNothing(outcome) == outcome

\* Lines 138-140: except Exception
Catch(outcome) ==
    IF outcome.kind = "raise"
    THEN Return(ExceptionResult(outcome.exc), outcome.trace, outcome.writes)
    ELSE outcome

analyze_single_plot(cadastral_number, lat, lon, env) ==
    Catch(AnalyzeBody(cadastral_number, lat, lon, env))

(***************************************************************************)
(* RosreestrClient.search_plots_in_area: the features of the reply, or []  *)
(* when the exchange fails.                                                *)
(***************************************************************************)
search_plots_in_area(limit, http) ==
    IF http.kind = "error" THEN <<>> ELSE Get(PointBody(http), "features", <<>>)

(***************************************************************************)
(* UrbanPlotAnalysisPipeline.analyze_area: the vacancy partition and the   *)
(* area report.                                                            *)
(***************************************************************************)
\* r.get('status') == 'success' and not r.get('analysis', {}).get('is_occupied', True)
IsVacant(r) ==
    /\ Get(r, "status", "") = "success"
    /\ ~Truthy(Get(Get(r, "analysis", EmptyDict), "is_occupied", PyTrue))

RECURSIVE SelectSeq2(_, _)
SelectSeq2(seq, keep) ==
    IF seq = <<>> THEN <<>>
    ELSE (IF keep[1] THEN <<Head(seq)>> ELSE <<>>)
            \o SelectSeq2(Tail(seq), Tail(keep))

VacantPlots(all_results) ==
    SelectSeq2(all_results, [i \in 1..Len(all_results) |-> IsVacant(all_results[i])])

SuccessCount(all_results) ==
    Cardinality({i \in 1..Len(all_results) : Get(all_results[i], "status", "") = "success"})

\* a / b on two ints: the float num/den, or ZeroDivisionError
ZeroDivisionError == [t |-> "raise", num |-> 0, den |-> 0]
Quotient(num, den) ==
    IF den = 0 THEN ZeroDivisionError ELSE [t |-> "float", num |-> num, den |-> den]

\* mutant: the quotient is taken whatever the list holds
SuccessRateUnguarded(all_results) ==
    Quotient(SuccessCount(all_results), Len(all_results))
\* len([r ... 'success']) / len(all_results) if all_results else 0
SuccessRate(all_results) ==
    IF all_results # <<>>
    THEN Quotient(SuccessCount(all_results), Len(all_results))
    ELSE PyNum(0)

AreaReport(all_results, vacant_plots) ==
    [total_plots_analyzed |-> Len(all_results),
     vacant_plots_found   |-> Len(vacant_plots),
     success_rate         |-> SuccessRate(all_results),
     all_results          |-> all_results,
     vacant_plots         |-> vacant_plots]

\* f"{self.output_dir}/area_report_{int(time.time())}.json"
AreaReportFileName(time) ==
    OutputDir \o <<"/", "area_report_", ToString(time), ".json">>

\* f"{self.output_dir}/suitable_plots_{int(time.time())}.json"
SuitableReportFileName(time) ==
    OutputDir \o <<"/", "suitable_plots_", ToString(time), ".json">>

\* builds the report and writes it; either step may raise
_save_area_report(all_results, vacant_plots, disk, time) ==
    LET report == AreaReport(all_results, vacant_plots) IN
    IF report.success_rate.t = "raise"
    THEN [written |-> FALSE, exc |-> "division by zero", report |-> EmptyDict,
          wrote |-> <<>>]
    ELSE IF ~CanOpenForWrite(AreaReportFileName(time), disk)
    THEN [written |-> FALSE, exc |-> "cannot write area report", report |-> EmptyDict,
          wrote |-> <<>>]
    ELSE [written |-> TRUE, exc |-> "", report |-> report,
          wrote |-> <<AreaReportFileName(time)>>]

\* mutant: the loop runs over everything the query returned
VisitedAll(records, maxp) == Len(records)
\* number of records the loop visits: len(plots[:max_plots]) for max_plots >= 0
Visited(records, maxp) == IF Len(records) < maxp THEN Len(records) ELSE maxp

(***************************************************************************)
(* UrbanPlotAnalysisPipeline._calculate_suitability_score and the ranking  *)
(* part of find_suitable_plots.                                            *)
(***************************************************************************)
Min(a, b) == IF a < b THEN a ELSE b

\* confidence_map.get(analysis.get('confidence', 'nizkiy'), 10)
ConfidencePoints(analysis) ==
    LET confidence == Get(analysis, "confidence", Low) IN
    IF confidence = High THEN 30
    ELSE IF confidence = Medium THEN 20
    ELSE IF confidence = Low THEN 10
    ELSE 10

AreaPoints(area) ==
    IF area.n >= 5000 THEN 30
    ELSE IF area.n >= 2000 THEN 20
    ELSE IF area.n >= 1000 THEN 10
    ELSE 0

BuildingsPoints(analysis) ==
    IF ~Truthy(Get(analysis, "buildings_detected", PyTrue)) THEN 20 ELSE 0

DevelopmentPoints(analysis) ==
    IF Truthy(Get(analysis, "suitable_for_development", PyFalse)) THEN 20 ELSE 0

\* mutant: the area term grows with the area and the sum is not capped
_calculate_suitability_score_linear(result) ==
    LET analysis == Get(result, "analysis", EmptyDict)
        plot_details == Get(result, "plot_details", EmptyDict)
        area == Get(plot_details, "area", PyNum(0))
    IN IF ~CanCompare(area) THEN -1
       ELSE ConfidencePoints(analysis) + (area.n \div 100)
              + BuildingsPoints(analysis) + DevelopmentPoints(analysis)

\* the score, or -1 when comparing the area raises TypeError
_calculate_suitability_score(result) ==
    LET analysis == Get(result, "analysis", EmptyDict)
        plot_details == Get(result, "plot_details", EmptyDict)
        area == Get(plot_details, "area", PyNum(0))
    IN IF ~CanCompare(area) THEN -1
       ELSE Min(ConfidencePoints(analysis) + AreaPoints(area)
                  + BuildingsPoints(analysis) + DevelopmentPoints(analysis), 100)

\* the filter of lines 245-259: TRUE (candidate), FALSE (not), or a raise
HasSufficientArea(result, min_area) ==
    Get(Get(result, "plot_details", EmptyDict), "area", PyNum(0)).n >= min_area
AreaComparable(result) ==
    CanCompare(Get(Get(result, "plot_details", EmptyDict), "area", PyNum(0)))
IsCandidate(result, min_area) ==
    /\ ~Truthy(Get(Get(result, "analysis", EmptyDict), "is_occupied", PyTrue))
    /\ HasSufficientArea(result, min_area)

WithScore(result) ==
    [k \in DOMAIN result \cup {"suitability_score"} |->
        IF k = "suitability_score" THEN _calculate_suitability_score(result)
        ELSE result[k]]

\* The loop of lines 245-259 from position i on.  all_results are the dicts
\* of the scan (a scored dict is the same object, so the score shows there);
\* picked lists the positions appended to suitable_plots, in order.
RECURSIVE FilterLoop(_, _, _, _)
FilterLoop(all_results, i, min_area, picked) ==
    IF i > Len(all_results)
    THEN [kind |-> "return", all_results |-> all_results, picked |-> picked]
    ELSE IF Get(all_results[i], "status", "") # "success"
    THEN FilterLoop(all_results, i + 1, min_area, picked)
    ELSE IF ~AreaComparable(all_results[i])
    THEN [kind |-> "raise", all_results |-> all_results, picked |-> picked]
    ELSE IF IsCandidate(all_results[i], min_area)
    THEN FilterLoop([all_results EXCEPT ![i] = WithScore(all_results[i])],
                    i + 1, min_area, Append(picked, i))
    ELSE FilterLoop(all_results, i + 1, min_area, picked)

\* mutant: ascending sort followed by reversal, which reverses ties
InsertByScoreTiesFirst(sorted, i, score) ==
    LET before == {p \in 1..Len(sorted) : score[sorted[p]] > score[i]}
        k == Cardinality(before)
    IN SubSeq(sorted, 1, k) \o <<i>> \o SubSeq(sorted, k + 1, Len(sorted))

\* list.sort(key=score, reverse=True): stable, so an element goes behind every
\* element already placed whose score is not smaller
InsertByScore(sorted, i, score) ==
    LET before == {p \in 1..Len(sorted) : score[sorted[p]] >= score[i]}
        k == Cardinality(before)
    IN SubSeq(sorted, 1, k) \o <<i>> \o SubSeq(sorted, k + 1, Len(sorted))

RECURSIVE SortByScore(_, _, _)
SortByScore(picked, score, sorted) ==
    IF picked = <<>> THEN sorted
    ELSE SortByScore(Tail(picked), score, InsertByScore(sorted, Head(picked), score))

\* lines 242-269 of find_suitable_plots, after analyze_area returned
RankResults(all_results, min_area, disk) ==
    LET f == FilterLoop(all_results, 1, min_area, <<>>)
        score == [i \in 1..Len(all_results) |->
                     Get(f.all_results[i], "suitability_score", 0)]
        order == SortByScore(f.picked, score, <<>>)
    IN IF f.kind = "raise"
       THEN [kind |-> "raise", all_results |-> f.all_results, order |-> <<>>,
             list |-> <<>>, report |-> FALSE]
       ELSE IF disk # "ok"
       THEN [kind |-> "raise", all_results |-> f.all_results, order |-> order,
             list |-> <<>>, report |-> FALSE]
       ELSE [kind |-> "return", all_results |-> f.all_results, order |-> order,
             list |-> [p \in 1..Len(order) |-> f.all_results[order[p]]],
             report |-> TRUE]

(***************************************************************************)
(* The outside world: the records, exchanges and replies the gateways may  *)
(* deliver.  Coordinates are whole numbers of an arbitrary unit; extents   *)
(* have an even sum so that their midpoint is exact.                       *)
(***************************************************************************)
CnValid == PyStr(<<"78", ":", "12">>)

AttrsDict(cn, area) == [t |-> "dict", d |-> MkDict([cn |-> cn, area_value |-> area])]
RawRecord(attrs, center, extent) ==
    MkDict([attrs |-> attrs, center |-> center, extent |-> extent])

Center(form, lon, lat) == [form |-> form, lon |-> lon, lat |-> lat]
Extent(form, xmin, xmax, ymin, ymax) ==
    [form |-> form, xmin |-> xmin, xmax |-> xmax, ymin |-> ymin, ymax |-> ymax]

Geometries ==
    { <<Center("list", 3, 1), Absent>>,
      <<Center("dict", 3, 1), Extent("dict", 2, 6, 0, 4)>>,
      <<Center("list", 3, 0), Absent>>,
      <<Center("bad", 0, 0), Extent("dict", 2, 4, 0, 2)>>,
      <<Absent, Extent("dict", 2, 4, 0, 2)>>,
      <<Absent, Extent("bad", 0, 0, 0, 0)>>,
      <<Absent, Absent>> }

AttrsValues ==
    {Absent, PyNone}
        \cup {AttrsDict(cn, area) : cn \in {CnValid, Absent, PyNone},
                                    area \in {PyNum(1500), Absent, PyNone}}

Records == {RawRecord(a, g[1], g[2]) : a \in AttrsValues, g \in Geometries}

HttpError == [kind |-> "error", hit |-> <<>>]
HttpJson(hit) == [kind |-> "json", hit |-> hit]
RegistryExchanges(recs) == {HttpError, HttpJson(<<>>)} \cup {HttpJson(<<r>>) : r \in recs}

ImageryExchanges == {"network_error", "not_image", "image"}
Disks == {"ok", "fail"}

Judgement(io, conf, bd, sfd) ==
    MkDict([is_occupied |-> io, confidence |-> conf, buildings_detected |-> bd,
            suitable_for_development |-> sfd])

ApiError == [kind |-> "error", json |-> "none", obj |-> EmptyDict, kw |-> {}]
TextReply(kw) == [kind |-> "text", json |-> "none", obj |-> EmptyDict, kw |-> kw]
BadJsonReply == [kind |-> "text", json |-> "bad", obj |-> EmptyDict, kw |-> {}]
JsonReply(obj) == [kind |-> "text", json |-> "ok", obj |-> obj, kw |-> {}]

\* replies without a JSON block; the stem "zdani" contains the word "da"
TextReplies ==
    {TextReply(kw) : kw \in {{}, {"da", "zastroika", "zdani"}, {"svobod"}, {"da", "prigod"}}}

Identities ==
    {<<c, la, lo>> : c \in {PyNone, PyStr(<<>>), CnValid},
                     la \in {PyNone, PyNum(0), PyNum(1)},
                     lo \in {PyNone, PyNum(0), PyNum(3)}}

SingleApis ==
    {ApiError, BadJsonReply} \cup TextReplies
        \cup {JsonReply(Judgement(PyFalse, High, PyFalse, PyTrue)),
              JsonReply(Judgement(PyTrue, Medium, PyTrue, PyFalse)),
              JsonReply(Judgement(PyNone, Absent, Absent, Absent)),
              JsonReply(EmptyDict)}

SingleEnvs ==
    [reg : RegistryExchanges(Records), img : ImageryExchanges, disk_img : Disks,
     api : SingleApis, disk_res : Disks]

SingleProfile == [ids |-> Identities, single_envs |-> SingleEnvs]

(***************************************************************************)
(* The worlds of an area scan.  The scan draws from fewer records and      *)
(* replies than a single call, the scoring runs draw one record from the   *)
(* whole range of areas and judgements.                                    *)
(***************************************************************************)
MaxPlots == 2

SeqsUpTo(S, n) == UNION {[1..k -> S] : k \in 0..n}

GoodRecord(area) == RawRecord(AttrsDict(CnValid, area), Center("list", 3, 1), Absent)

World(reg, img, api, disk_res) ==
    [reg |-> reg, img |-> img, disk_img |-> "ok", api |-> api, disk_res |-> disk_res]

Found(area) == HttpJson(<<GoodRecord(PyNum(area))>>)

\* what may happen to one parcel of a scan: no record; imagery failure; result
\* file not written; classifier failure or a full-score judgement on a small
\* and on a large parcel; on a large parcel two vacant judgements of equal
\* score, an occupied one and one without is_occupied
ScanWorlds ==
    {World(HttpJson(<<>>), "image", ApiError, "ok"),
     World(Found(6000), "network_error", ApiError, "ok"),
     World(Found(6000), "image", ApiError, "fail")}
      \cup {World(Found(a), "image", api, "ok") :
              a \in {1500, 6000},
              api \in {ApiError, JsonReply(Judgement(PyFalse, High, PyFalse, PyTrue))}}
      \cup {World(Found(6000), "image", api, "ok") :
              api \in {JsonReply(Judgement(PyFalse, High, PyFalse, PyFalse)),
                       JsonReply(Judgement(PyFalse, High, PyTrue, PyTrue)),
                       JsonReply(Judgement(PyTrue, High, PyTrue, PyFalse)),
                       JsonReply(EmptyDict)}}

ScanProfile ==
    [ops       |-> {[name |-> "analyze_area", min_area |-> 0],
                    [name |-> "find_suitable_plots", min_area |-> 2000]},
     max_plots |-> 0..MaxPlots,
     records   |-> {RawRecord(Absent, Center("list", 3, 1), Absent),
                    RawRecord(Absent, Center("list", 3, 0), Absent),
                    RawRecord(Absent, Absent, Absent)},
     envs      |-> ScanWorlds,
     disks     |-> Disks]

\* the scans followed to their end: a parcel is not found, its image cannot be
\* fetched, its result file cannot be written, or it is analysed
FairWorlds ==
    {World(HttpJson(<<>>), "image", ApiError, "ok"),
     World(Found(6000), "network_error", ApiError, "ok"),
     World(Found(6000), "image", ApiError, "fail"),
     World(Found(6000), "image", JsonReply(Judgement(PyFalse, High, PyFalse, PyTrue)), "ok")}

FairProfile == [ScanProfile EXCEPT !.envs = FairWorlds]

\* operations sharing one output directory: the same parcel by number and by
\* point, found or not, and scans of at most one record
MaxCalls == 2

FilesWorlds ==
    {World(HttpJson(<<>>), "image", ApiError, "ok"),
     World(Found(6000), "image", ApiError, "ok"),
     World(Found(6000), "image", ApiError, "fail")}

FilesProfile ==
    [ids         |-> {<<CnValid, PyNone, PyNone>>, <<PyNone, PyNum(1), PyNum(3)>>},
     single_envs |-> FilesWorlds,
     ops         |-> {[name |-> "analyze_area", min_area |-> 0],
                      [name |-> "find_suitable_plots", min_area |-> 2000]},
     max_plots   |-> {0, 1},
     records     |-> {RawRecord(Absent, Center("list", 3, 1), Absent)},
     envs        |-> FilesWorlds,
     disks       |-> Disks]

ScoreAreas ==
    {PyNone} \cup {PyNum(a) : a \in {-5, 0, 999, 1000, 1500, 1999, 2000, 4999, 5000, 6000}}

ScoreApis ==
    {ApiError, BadJsonReply} \cup TextReplies
        \cup {JsonReply(Judgement(io, conf, bd, sfd)) :
                io \in {PyFalse, PyNone},
                conf \in {High, Medium, Low, PyStr(<<"unsure">>), PyNone, Absent},
                bd \in {PyTrue, PyFalse, PyNone, Absent},
                sfd \in {PyTrue, PyFalse, PyNone, Absent}}

ScoreProfile ==
    [ops       |-> {[name |-> "find_suitable_plots", min_area |-> m] : m \in {-10, 1000}},
     max_plots |-> {1},
     records   |-> {RawRecord(Absent, Center("list", 3, 1), Absent)},
     envs      |-> [reg : {HttpJson(<<GoodRecord(a)>>) : a \in ScoreAreas},
                    img : {"image"}, disk_img : {"ok"}, api : ScoreApis,
                    disk_res : {"ok"}],
     disks     |-> {"ok"}]

(***************************************************************************)
(* Config (config.py) and the entry points: main of example.py, main of    *)
(* demo.py and the __main__ block of pipeline.py.  environ is the process  *)
(* environment after load_dotenv(): a dict from variable names to strings. *)
(* An entry point is followed step by step; did lists what it has done.    *)
(***************************************************************************)
os_getenv(environ, name, default) == Get(environ, name, default)

\* the class attributes read when config.py is imported (lines 17-18)
Config(environ) ==
    [ANTHROPIC_API_KEY   |-> os_getenv(environ, "ANTHROPIC_API_KEY", PyStr(<<>>)),
     YANDEX_MAPS_API_KEY |-> os_getenv(environ, "YANDEX_MAPS_API_KEY", PyNone)]

\* mutant: the credential is not looked at
validate_unchecked(cls) ==
    [kind |-> "return", v |-> PyTrue, exc |-> ""]
\* Config.validate: True, or ValueError when the credential is falsy
validate(cls) ==
    IF ~Truthy(cls.ANTHROPIC_API_KEY)
    THEN [kind |-> "raise", v |-> PyNone, exc |-> "ANTHROPIC_API_KEY is required"]
    ELSE [kind |-> "return", v |-> PyTrue, exc |-> ""]

\* what the example functions of example.py do with the pipeline
example_single_plot_by_coordinates == <<"UrbanPlotAnalysisPipeline", "analyze_single_plot">>
example_single_plot_by_cadastral == <<"UrbanPlotAnalysisPipeline", "analyze_single_plot">>
example_area_search == <<"UrbanPlotAnalysisPipeline", "analyze_area">>
example_find_suitable_plots == <<"UrbanPlotAnalysisPipeline", "find_suitable_plots">>

MenuChoices == {"0", "1", "2", "3", "4", "5", "x"}

\* example.main, lines 226-245: the steps the chosen menu entry runs
ExampleMenu(choice) ==
    CASE choice = "1" -> example_single_plot_by_coordinates
      [] choice = "2" -> example_single_plot_by_cadastral
      [] choice = "3" -> example_area_search
      [] choice = "4" -> example_find_suitable_plots
      [] choice = "5" -> example_single_plot_by_coordinates \o example_area_search
                           \o example_find_suitable_plots
      [] OTHER -> <<>>

\* demo.py: each demo builds the vision client and asks it about a drawn image
demo_analyze_vacant_plot ==
    <<"ClaudeVisionClient", "write_demo_image", "analyze_plot_occupancy",
      "write_demo_result">>
demo_analyze_occupied_plot ==
    <<"ClaudeVisionClient", "write_demo_image", "analyze_plot_occupancy",
      "write_demo_result">>
DemoMain == demo_analyze_vacant_plot \o <<"input">> \o demo_analyze_occupied_plot

\* pipeline.py, lines 374-400
PipelineMain == <<"UrbanPlotAnalysisPipeline", "analyze_single_plot", "find_suitable_plots">>

EntryPoints == {"example.main", "demo.main", "pipeline.__main__"}

\* the credential is unset, empty, blank or set; the map key is optional
Environs ==
    {MkDict([ANTHROPIC_API_KEY |-> a, YANDEX_MAPS_API_KEY |-> y]) :
        a \in {Absent, PyStr(<<>>), PyStr(<<" ">>), PyStr(<<"sk-ant">>)},
        y \in {Absent, PyStr(<<"ymaps">>)}}

NotLaunched ==
    [entry |-> "none", environ |-> EmptyDict, at |-> "none", choice |-> "",
     todo |-> <<>>, did |-> <<>>]

(***************************************************************************)
(* State machine                                                           *)
(***************************************************************************)
NoCall == [called |-> FALSE]
NoOp == [name |-> "none", min_area |-> 0]
NoQuery == [kind |-> "none", hit |-> <<>>]
NoArea == [returned |-> FALSE]
NoRanking == [returned |-> FALSE]

Init ==
    /\ pc = "idle"
    /\ boot = NotLaunched
    /\ last = NoCall
    /\ op = NoOp
    /\ query = NoQuery
    /\ plots = <<>>
    /\ idx = 0
    /\ max_plots = 0
    /\ results = <<>>
    /\ log = <<>>
    /\ area_out = NoArea
    /\ suitable = NoRanking
    /\ outdir = EmptyDir
    /\ now = 0

\* a caller invokes analyze_single_plot(cadastral_number, lat, lon)
AnalyzeSingle(P) ==
    /\ pc = "idle"
    /\ \E id \in P.ids, env \in P.single_envs :
          LET out == analyze_single_plot(id[1], id[2], id[3], env) IN
          /\ last' = [called |-> TRUE, cadastral_number |-> id[1], lat |-> id[2],
                      lon |-> id[3], env |-> env, out |-> out]
          /\ outdir' = WriteFiles(outdir, out.writes)
          /\ now' = now + Elapsed(out.trace)
    /\ pc' = "analyzed"
    /\ UNCHANGED <<boot, op, query, plots, idx, max_plots, results, log, area_out,
                   suitable>>

\* analyze_area, lines 162-175: the bounding-box query (called directly or by
\* find_suitable_plots, line 234)
SearchPlots(P) ==
    /\ pc = "idle"
    /\ \E o \in P.ops, mp \in P.max_plots :
         \E http \in {HttpError} \cup {HttpJson(l) : l \in SeqsUpTo(P.records, mp + 1)} :
            /\ op' = o
            /\ max_plots' = mp
            /\ query' = http
            /\ plots' = search_plots_in_area(mp, http)
    /\ idx' = 0
    /\ results' = <<>>
    /\ log' = <<>>
    /\ pc' = "scanning"
    /\ UNCHANGED <<boot, last, area_out, suitable, outdir, now>>

\* what analyze_area's except clause returns (lines 209-211)
AreaFailed(vacant, exc) ==
    [returned |-> TRUE, ret |-> <<>>, vacant |-> vacant, report_written |-> FALSE,
     exc |-> exc, report |-> EmptyDict]

\* one thing the loop did with record number rec of plots
Event(ev, rec) == [ev |-> ev, rec |-> rec]

\* mutant: the next record is taken up without a delay
AnalyzeEventsUnpaced(rec) == <<Event("analyze", rec)>>
\* lines 188-193: the analyzer call, then time.sleep(2)
AnalyzeEvents(rec) == <<Event("analyze", rec), Event("sleep_2", rec)>>

\* analyze_area, lines 178-193: one pass of the loop over plots[:max_plots]
ProcessPlot(P) ==
    /\ pc = "scanning"
    /\ idx < Visited(plots, max_plots)
    /\ LET coords == get_plot_coordinates(plots[idx + 1]) IN
       IF ~coords.some
       THEN /\ idx' = idx + 1
            /\ log' = Append(log, Event("skip", idx + 1))
            /\ UNCHANGED <<pc, results, area_out, outdir, now>>
       ELSE \E env \in P.envs :
              LET out == analyze_single_plot(PyNone, PyNum(coords.v.lat),
                                             PyNum(coords.v.lon), env)
              IN /\ outdir' = WriteFiles(outdir, out.writes)
                 /\ IF out.kind = "raise"
                    THEN /\ pc' = "scanned"
                         /\ log' = Append(log, Event("analyze", idx + 1))
                         /\ area_out' = AreaFailed(<<>>, out.exc)
                         /\ now' = now + Elapsed(out.trace)
                         /\ UNCHANGED <<idx, results>>
                    ELSE /\ results' = Append(results, out.result)
                         /\ log' = log \o AnalyzeEvents(idx + 1)
                         /\ idx' = idx + 1
                         /\ now' = now + Elapsed(out.trace) + 2
                         /\ UNCHANGED <<pc, area_out>>
    /\ UNCHANGED <<boot, last, op, query, plots, max_plots, suitable>>

\* analyze_area, lines 195-211: vacancy partition, area report, return
FinishScan(P) ==
    /\ pc = "scanning"
    /\ idx = Visited(plots, max_plots)
    /\ \E disk \in P.disks :
          LET vacant_plots == VacantPlots(results)
              saved == _save_area_report(results, vacant_plots, disk, now)
          IN /\ area_out' = IF saved.written
                            THEN [returned |-> TRUE, ret |-> results,
                                  vacant |-> vacant_plots, report_written |-> TRUE,
                                  exc |-> "", report |-> saved.report]
                            ELSE AreaFailed(vacant_plots, saved.exc)
             /\ outdir' = WriteFiles(outdir, saved.wrote)
    /\ pc' = "scanned"
    /\ UNCHANGED <<boot, last, op, query, plots, idx, max_plots, results, log, suitable,
                   now>>

\* find_suitable_plots, lines 242-269: filter, score, sort, report, return
Rank(P) ==
    /\ pc = "scanned"
    /\ op.name = "find_suitable_plots"
    /\ \E disk \in P.disks :
          LET r == RankResults(area_out.ret, op.min_area, disk) IN
          /\ suitable' = [returned |-> TRUE, kind |-> r.kind, list |-> r.list,
                          order |-> r.order, report_written |-> r.report]
          /\ area_out' = [area_out EXCEPT !.ret = r.all_results]
          /\ outdir' = IF r.report
                       THEN WriteFiles(outdir, <<SuitableReportFileName(now)>>)
                       ELSE outdir
    /\ pc' = "ranked"
    /\ UNCHANGED <<boot, last, op, query, plots, idx, max_plots, results, log, now>>

\* the operation has returned (or raised) to its caller
Finished ==
    \/ pc \in {"analyzed", "ranked"}
    \/ pc = "scanned" /\ op.name = "analyze_area"

\* the caller makes a further call on the same pipeline, in the same output
\* directory, in the same second or later
NextCall ==
    /\ Finished
    /\ outdir.calls + 1 < MaxCalls
    /\ outdir' = [outdir EXCEPT !.calls = @ + 1]
    /\ now' \in {now, now + 1}
    /\ pc' = "idle"
    /\ last' = NoCall
    /\ op' = NoOp
    /\ query' = NoQuery
    /\ plots' = <<>>
    /\ idx' = 0
    /\ max_plots' = 0
    /\ results' = <<>>
    /\ log' = <<>>
    /\ area_out' = NoArea
    /\ suitable' = NoRanking
    /\ UNCHANGED boot

\* the caller takes the returned value; the next run starts from an empty
\* output directory
Done ==
    /\ Finished
    /\ outdir' = EmptyDir
    /\ now' = 0
    /\ pc' = "idle"
    /\ last' = NoCall
    /\ op' = NoOp
    /\ query' = NoQuery
    /\ plots' = <<>>
    /\ idx' = 0
    /\ max_plots' = 0
    /\ results' = <<>>
    /\ log' = <<>>
    /\ area_out' = NoArea
    /\ suitable' = NoRanking
    /\ UNCHANGED boot

Next ==
    \/ SearchPlots(ScanProfile)
    \/ ProcessPlot(ScanProfile)
    \/ FinishScan(ScanProfile)
    \/ Rank(ScanProfile)
    \/ Done

Spec == Init /\ [][Next]_vars

NextSingle == AnalyzeSingle(SingleProfile) \/ Done

SpecSingle == Init /\ [][NextSingle]_vars

NextScore ==
    \/ SearchPlots(ScoreProfile)
    \/ ProcessPlot(ScoreProfile)
    \/ FinishScan(ScoreProfile)
    \/ Rank(ScoreProfile)
    \/ Done

SpecScore == Init /\ [][NextScore]_vars

\* analyze_area is sequential code: once the query has returned, the loop
\* takes up the next record and, after the last one, goes on to the report
\* several operations in one output directory
NextFiles ==
    \/ AnalyzeSingle(FilesProfile)
    \/ SearchPlots(FilesProfile)
    \/ ProcessPlot(FilesProfile)
    \/ FinishScan(FilesProfile)
    \/ Rank(FilesProfile)
    \/ NextCall

SpecFiles == Init /\ [][NextFiles]_vars

NextFair ==
    \/ SearchPlots(FairProfile)
    \/ ProcessPlot(FairProfile)
    \/ FinishScan(FairProfile)
    \/ Rank(FairProfile)
    \/ Done

SpecFair ==
    /\ Init
    /\ [][NextFair]_vars
    /\ WF_vars(ProcessPlot(FairProfile))
    /\ WF_vars(FinishScan(FairProfile))

(***************************************************************************)
(* Entry points                                                            *)
(***************************************************************************)
pipeline_vars ==
    <<pc, last, op, query, plots, idx, max_plots, results, log, area_out, suitable,
      outdir, now>>

\* a script is started in some environment
Launch ==
    /\ boot = NotLaunched
    /\ \E entry \in EntryPoints, environ \in Environs :
          boot' = [entry |-> entry, environ |-> environ, at |-> "check", choice |-> "",
                   todo |-> <<>>,
                   did |-> IF entry = "demo.main" THEN <<"logger.add">>
                           ELSE <<"load_dotenv">>]
    /\ UNCHANGED pipeline_vars

\* example.main 198-210 and demo.main 231-237: try config.validate() except
\* ValueError: return; pipeline.py 366-372: if not anthropic_key: exit(1)
CheckCredential ==
    /\ boot.at = "check"
    /\ IF boot.entry = "pipeline.__main__"
       THEN LET anthropic_key == os_getenv(boot.environ, "ANTHROPIC_API_KEY", PyNone) IN
            IF ~Truthy(anthropic_key)
            THEN boot' = [boot EXCEPT !.at = "stopped",
                                      !.did = @ \o <<"logger.error", "exit(1)">>]
            ELSE boot' = [boot EXCEPT !.at = "run", !.todo = PipelineMain]
       ELSE LET outcome == validate(Config(boot.environ)) IN
            IF outcome.kind = "raise"
            THEN boot' = [boot EXCEPT !.at = "stopped",
                                      !.did = @ \o <<"validate raised", "return">>]
            ELSE boot' = [boot EXCEPT
                            !.did = @ \o <<IF outcome.v = PyTrue THEN "validate True"
                                           ELSE "validate other">>,
                            !.at = IF boot.entry = "example.main" THEN "menu" ELSE "run",
                            !.todo = IF boot.entry = "example.main" THEN <<>>
                                     ELSE DemoMain]
    /\ UNCHANGED pipeline_vars

\* example.main 224-245: the menu
ChooseExample ==
    /\ boot.at = "menu"
    /\ \E choice \in MenuChoices :
          boot' = [boot EXCEPT !.choice = choice,
                               !.did = Append(@, "input"),
                               !.todo = ExampleMenu(choice),
                               !.at = IF ExampleMenu(choice) = <<>> THEN "stopped"
                                      ELSE "run"]
    /\ UNCHANGED pipeline_vars

\* the next statement of the running script
RunStep ==
    /\ boot.at = "run"
    /\ boot.todo # <<>>
    /\ boot' = [boot EXCEPT !.did = Append(@, Head(boot.todo)),
                            !.todo = Tail(@),
                            !.at = IF Tail(boot.todo) = <<>> THEN "finished" ELSE "run"]
    /\ UNCHANGED pipeline_vars

\* the process ends
Exit ==
    /\ boot.at \in {"stopped", "finished"}
    /\ boot' = NotLaunched
    /\ UNCHANGED pipeline_vars

NextStartup == Launch \/ CheckCredential \/ ChooseExample \/ RunStep \/ Exit

SpecStartup == Init /\ [][NextStartup]_vars

(***************************************************************************)
(* Claims about one analyze_single_plot call (checked under SpecSingle)    *)
(***************************************************************************)
Statuses == {"success", "not_found", "error"}

Returned == pc = "analyzed"
Calls(ev) == Cardinality({i \in 1..Len(last.out.trace) : last.out.trace[i] = ev})

\* the call issued a registry lookup and the client answered None
LookupFoundNothing ==
    /\ Calls("registry_by_number") + Calls("registry_by_point") = 1
    /\ IF Calls("registry_by_number") = 1
       THEN ~get_plot_by_cadastral_number(last.cadastral_number, last.env.reg).some
       ELSE ~get_plot_by_coordinates(last.lat, last.lon, last.env.reg).some

\* the imagery gateway was asked for the picture and answered None
FetchFailed ==
    /\ Calls("imagery") = 1
    /\ \/ last.env.img # "image"
       \/ last.env.disk_img # "ok"
       \/ ~CanOpenForWrite(ImagePath(get_plot_details(last.env.reg.hit[1])), "ok")

\* the classifier was asked and could not deliver a structured judgement
ClassificationFailed ==
    /\ Calls("classifier") = 1
    /\ \/ last.env.api.kind = "error"
       \/ last.env.api.json \in {"bad", "none"}

\* C1: analyze_single_plot never lets an exception reach its caller: whatever
\* the arguments and whatever the registry, imagery, classifier and result
\* writer do, the call returns a result whose status is success, not_found or
\* error.
C1_NeverPropagates ==
    Returned => /\ last.out.kind = "return"
                /\ "status" \in DOMAIN last.out.result
                /\ last.out.result.status \in Statuses

\* a call whose body raised after classification (the result file could not be
\* written) and that came back as an error result
C1_Witness ==
    /\ Returned
    /\ AnalyzeBody(last.cadastral_number, last.lat, last.lon, last.env).kind = "raise"
    /\ Calls("classifier") = 1
    /\ last.out.result.status = "error"

\* C2: when the registry lookup yields no record the call returns not_found
\* and, in that call, imagery and classifier are invoked zero times, no pacing
\* delay is taken and no file is written.
C2_NotFoundShortCircuit ==
    (Returned /\ LookupFoundNothing) =>
        /\ last.out.result.status = "not_found"
        /\ Calls("imagery") = 0
        /\ Calls("classifier") = 0
        /\ Calls("sleep_1") = 0
        /\ Calls("save_result") = 0
        /\ last.out.writes = <<>>

\* a lookup by coordinates that failed in transport
C2_Witness ==
    /\ Returned
    /\ LookupFoundNothing
    /\ Calls("registry_by_point") = 1
    /\ last.env.reg.kind = "error"
    /\ last.out.result.status = "not_found"

\* C8: record found, coordinate extracted, satellite-image fetch fails: the
\* result is status=error with plot_details as extracted from the registry
\* record, it has no analysis, and the classifier is not called.
C8_ImageryFailureKeepsDetails ==
    (Returned /\ FetchFailed) =>
        /\ last.out.result.status = "error"
        /\ "plot_details" \in DOMAIN last.out.result
        /\ last.out.result.plot_details = get_plot_details(last.env.reg.hit[1])
        /\ "analysis" \notin DOMAIN last.out.result
        /\ Calls("classifier") = 0

\* the imagery service answered with something that is not an image
C8_Witness ==
    /\ Returned
    /\ FetchFailed
    /\ last.env.img = "not_image"
    /\ last.out.result.plot_details.cadastral_number = CnValid

\* C9 (as stated): registry and imagery succeed, classification fails
\* (transport error or unparseable model output): the result is still
\* status=success, its judgement has is_occupied null and confidence low and
\* carries an error marker.
C9_ClassificationFailureDegrades ==
    (Returned /\ ClassificationFailed) =>
        /\ last.out.result.status = "success"
        /\ "analysis" \in DOMAIN last.out.result
        /\ Get(last.out.result.analysis, "is_occupied", Absent) = PyNone
        /\ Get(last.out.result.analysis, "confidence", Absent) = Low
        /\ "error" \in DOMAIN last.out.result.analysis

\* C10: the judgement ('analysis') is present in a result if and only if its
\* status is success.
C10_JudgementIffSuccess ==
    Returned => (("analysis" \in DOMAIN last.out.result)
                    <=> (last.out.result.status = "success"))

\* a success result carrying the degraded judgement of a failed classification
C10_Witness ==
    /\ Returned
    /\ last.out.result.status = "success"
    /\ last.env.api.kind = "error"
    /\ "analysis" \in DOMAIN last.out.result

(***************************************************************************)
(* Claims about analyze_area and find_suitable_plots (checked under Spec,  *)
(* the scoring claims under SpecScore)                                     *)
(***************************************************************************)
Ranked == pc = "ranked" /\ suitable.kind = "return"
Score(p) == suitable.list[p].suitability_score
IsOccupiedOf(r) == Get(Get(r, "analysis", EmptyDict), "is_occupied", Absent)
AreaOf(r) == Get(Get(r, "plot_details", EmptyDict), "area", PyNum(0))

\* C3 (as stated): a result is in the vacant subset only if its status is
\* success and its judgement's is_occupied is exactly false; a success result
\* whose is_occupied is null or missing is never counted as vacant.
C3_VacantOnlyIfExactlyFalse ==
    area_out.returned =>
        \A i \in 1..Len(area_out.vacant) :
            /\ area_out.vacant[i].status = "success"
            /\ IsOccupiedOf(area_out.vacant[i]) = PyFalse

\* C4 (as stated): find_suitable_plots returns a scan result as a candidate if
\* and only if status = success, is_occupied = false and area >= min_area; a
\* result whose is_occupied is null or absent is never a candidate.
C4_CandidateIff ==
    Ranked =>
        \A i \in 1..Len(area_out.ret) :
            (\E p \in 1..Len(suitable.order) : suitable.order[p] = i)
                <=> /\ area_out.ret[i].status = "success"
                    /\ IsOccupiedOf(area_out.ret[i]) = PyFalse
                    /\ AreaOf(area_out.ret[i]).n >= op.min_area

\* the score the claim describes, for a result with a recognised confidence
ClaimedScore(r) ==
    LET analysis == r.analysis
        confidence == analysis.confidence
        area == AreaOf(r).n
    IN Min((IF confidence = High THEN 30 ELSE IF confidence = Medium THEN 20 ELSE 10)
           + (IF area >= 5000 THEN 30 ELSE IF area >= 2000 THEN 20
              ELSE IF area >= 1000 THEN 10 ELSE 0)
           + (IF Get(analysis, "buildings_detected", Absent) = PyFalse THEN 20 ELSE 0)
           + (IF Get(analysis, "suitable_for_development", Absent) = PyTrue THEN 20 ELSE 0),
           100)

\* C5 (as stated): the suitability score of a result equals min(confidence
\* points 30/20/10 + area points 30/20/10/0 + 20 if buildings_detected is false
\* + 20 if suitable_for_development is true, 100).
C5_ScoreFormula ==
    Ranked =>
        \A p \in 1..Len(suitable.list) :
            Get(suitable.list[p].analysis, "confidence", Absent) \in {High, Medium, Low}
                => Score(p) = ClaimedScore(suitable.list[p])

\* C6: every candidate returned by find_suitable_plots has a suitability_score
\* in [0,100], whatever its judgement contains (unrecognised or missing
\* confidence, missing flags, any numeric area).
C6_ScoreInRange ==
    Ranked => \A p \in 1..Len(suitable.list) : Score(p) >= 0 /\ Score(p) <= 100

\* a returned candidate with an unrecognised confidence, no buildings_detected
\* and a negative area
C6_Witness ==
    /\ Ranked
    /\ Len(suitable.list) = 1
    /\ Get(suitable.list[1].analysis, "confidence", Absent) = PyStr(<<"unsure">>)
    /\ "buildings_detected" \notin DOMAIN suitable.list[1].analysis
    /\ AreaOf(suitable.list[1]).n < 0

\* C7: the returned list is ordered by suitability_score, non-increasing, and
\* two candidates of equal score keep the relative order their results had in
\* the list analyze_area returned; each candidate is the result at its place.
C7_SortedStable ==
    Ranked =>
        /\ Len(suitable.list) = Len(suitable.order)
        /\ \A p \in 1..Len(suitable.list) :
              suitable.list[p] = area_out.ret[suitable.order[p]]
        /\ \A p, q \in 1..Len(suitable.list) :
              p < q => \/ Score(p) > Score(q)
                       \/ Score(p) = Score(q) /\ suitable.order[p] < suitable.order[q]

\* two different candidates of equal score, returned in scan order
C7_Witness ==
    /\ Ranked
    /\ Len(suitable.list) = 2
    /\ Score(1) = Score(2)
    /\ suitable.list[1] # suitable.list[2]
    /\ suitable.order = <<1, 2>>

(***************************************************************************)
(* Claims about the loop and the return value of analyze_area (Spec)       *)
(***************************************************************************)
ScanReturned == pc = "scanned" /\ area_out.returned

\* the records the loop visited from which a coordinate can be extracted
Located ==
    {i \in 1..Visited(plots, max_plots) : get_plot_coordinates(plots[i]).some}

Analyzed == {i \in 1..Len(log) : log[i].ev = "analyze"}

\* C11 (as stated): a record without an extractable coordinate contributes no
\* result and triggers no analyzer call; the returned list has exactly one
\* result per processed record with an extractable coordinate, and the
\* summary's total_plots_analyzed equals that number.
C11_OneResultPerLocatedRecord ==
    ScanReturned =>
        /\ \A i \in Analyzed : log[i].rec \in Located
        /\ Len(area_out.ret) = Cardinality(Located)
        /\ area_out.report_written =>
              area_out.report.total_plots_analyzed = Cardinality(Located)

\* C12: when the area summary is built, its success_rate is the number of
\* results with status success divided by the number of results if there is
\* a result, and exactly 0 if there is none; building it never raises a
\* division error.
C12_SuccessRate ==
    ScanReturned =>
        /\ area_out.exc # "division by zero"
        /\ area_out.report_written =>
              area_out.report.success_rate =
                IF Len(results) = 0 THEN PyNum(0)
                ELSE [t |-> "float",
                      num |-> Cardinality({i \in 1..Len(results) :
                                             results[i].status = "success"}),
                      den |-> Len(results)]

\* a scan that analyzed nothing and wrote a summary with success_rate 0
C12_Witness ==
    /\ ScanReturned
    /\ results = <<>>
    /\ area_out.report_written
    /\ area_out.report.success_rate = PyNum(0)

\* C14 (as stated): when the bounding-box query fails, analyze_area returns
\* an empty list without any analyzer call, and find_suitable_plots built on
\* it returns an empty shortlist.
C14_QueryFailureGivesEmpty ==
    query.kind = "error" =>
        /\ Analyzed = {}
        /\ area_out.returned => area_out.ret = <<>>
        /\ pc = "ranked" => suitable.kind = "return" /\ suitable.list = <<>>

\* C15 (as stated): ranking leaves every result of the analyze_area output
\* as it was when the scan returned it.
C15_SourceResultsUnchanged ==
    [][(pc = "scanned" /\ pc' = "ranked") => area_out'.ret = area_out.ret]_vars

\* C20 (as stated): the list analyze_area returns holds every result the scan
\* produced, in the order of the records they were produced for.
C20_ReturnsEveryResultInOrder ==
    ScanReturned =>
        /\ area_out.ret = results
        /\ \A i, j \in Analyzed : i < j => log[i].rec < log[j].rec

(***************************************************************************)
(* Claims about find_suitable_plots as a whole (SpecScore)                 *)
(***************************************************************************)
\* C13 (as stated): find_suitable_plots never propagates an exception; a
\* failure while filtering, scoring, sorting or writing the report makes it
\* return an empty list.
C13_RankingNeverPropagates ==
    pc = "ranked" => suitable.kind = "return"

(***************************************************************************)
(* Further claims about one analyze_single_plot call (SpecSingle)          *)
(***************************************************************************)
Levels == {High, Medium, Low}

\* the reply carries no recognised confidence: no JSON block at all, or a
\* JSON object whose confidence is missing or not one of the three levels
NoRecognisedConfidence ==
    /\ last.env.api.kind = "text"
    /\ \/ last.env.api.json = "none"
       \/ /\ last.env.api.json = "ok"
          /\ Get(last.env.api.obj, "confidence", Absent) \notin Levels

\* C16 (as stated): every judgement the classifier returns has a confidence
\* among high, medium, low, and it is low when the model output has an
\* unrecognised confidence, no confidence, or no structured JSON.
C16_ConfidenceAlwaysALevel ==
    (Returned /\ "analysis" \in DOMAIN last.out.result) =>
        LET confidence == Get(last.out.result.analysis, "confidence", Absent) IN
        /\ confidence \in Levels
        /\ NoRecognisedConfidence => confidence = Low

\* the caller gave no cadastral identifier and not both coordinates
NeitherProvided ==
    /\ last.cadastral_number \in {PyNone, PyStr(<<>>)}
    /\ last.lat = PyNone \/ last.lon = PyNone

\* C17: a call with neither a cadastral identifier nor a coordinate comes
\* back as status error with the invalid-argument message, not as not_found,
\* and no registry, imagery or classifier call is issued.
C17_MissingIdentityIsInvalidArgument ==
    (Returned /\ NeitherProvided) =>
        /\ last.out.result.status = "error"
        /\ last.out.result.error =
              "Either cadastral_number or (lat, lon) must be provided"
        /\ last.out.trace = <<>>
        /\ last.out.writes = <<>>

\* a call without any argument, made while the registry has the parcel
C17_Witness ==
    /\ Returned
    /\ last.cadastral_number = PyNone
    /\ last.lat = PyNone
    /\ last.lon = PyNone
    /\ last.env.reg.kind = "json"
    /\ last.env.reg.hit # <<>>
    /\ last.out.result.status = "error"

\* C18 (as stated): status not_found is returned only when the registry
\* answered that it has no record; a lookup that failed in transport is not
\* reported as not_found.
C18_NotFoundOnlyWhenRegistryAnswered ==
    (Returned /\ last.out.result.status = "not_found") =>
        last.env.reg.kind = "json"

(***************************************************************************)
(* Claim about the entry points (SpecStartup)                              *)
(***************************************************************************)
CredentialMissing ==
    Get(boot.environ, "ANTHROPIC_API_KEY", PyStr(<<>>)) = PyStr(<<>>)

Did(step) == \E i \in 1..Len(boot.did) : boot.did[i] = step

PipelineWork ==
    {"UrbanPlotAnalysisPipeline", "ClaudeVisionClient", "analyze_single_plot",
     "analyze_area", "find_suitable_plots", "analyze_plot_occupancy"}

\* C19: with the vision-model credential absent or empty, Config.validate
\* raises (with a credential it returns True), and example.main, demo.main
\* and the __main__ block of pipeline.py stop before they construct the
\* pipeline or a gateway client or call any of them.
C19_MissingCredentialStopsStartup ==
    /\ (boot.entry \in {"example.main", "demo.main"} /\ boot.at # "check") =>
          /\ CredentialMissing <=> Did("validate raised")
          /\ ~CredentialMissing <=> Did("validate True")
    /\ (boot.entry \in EntryPoints /\ CredentialMissing) =>
          /\ boot.at \in {"check", "stopped"}
          /\ \A i \in 1..Len(boot.did) : boot.did[i] \notin PipelineWork

\* example.main stopped by the ValueError of validate on an empty credential
C19_Witness ==
    /\ boot.entry = "example.main"
    /\ "ANTHROPIC_API_KEY" \in DOMAIN boot.environ
    /\ CredentialMissing
    /\ boot.at = "stopped"
    /\ Did("validate raised")

(***************************************************************************)
(* Claims about the steps of one analyze_single_plot call (SpecSingle)     *)
(***************************************************************************)
\* the record the registry client handed to the call, if any
FoundRecord ==
    IF Truthy(last.cadastral_number)
    THEN get_plot_by_cadastral_number(last.cadastral_number, last.env.reg)
    ELSE get_plot_by_coordinates(last.lat, last.lon, last.env.reg)

\* C21 (as stated): the plot_details of a result contain no null: a field
\* absent or null in the record is replaced by its sentinel, so the area is
\* always a number.
C21_DetailsHoldNoNull ==
    (Returned /\ "plot_details" \in DOMAIN last.out.result) =>
        LET plot_details == last.out.result.plot_details IN
        /\ \A k \in DOMAIN plot_details : plot_details[k] # PyNone
        /\ Get(plot_details, "area", PyNum(0)).t = "num"

IsPrefix(a, b) == Len(a) <= Len(b) /\ SubSeq(b, 1, Len(a)) = a

\* the external steps in the order the claim gives, for either lookup mode
StepOrder(lookup) ==
    <<lookup, "extract_coordinates", "imagery", "sleep_1", "classifier", "save_result">>

C24_ExactlyOneLookup ==
    Returned =>
        /\ Truthy(last.cadastral_number) =>
              Calls("registry_by_number") = 1 /\ Calls("registry_by_point") = 0
        /\ (~Truthy(last.cadastral_number) /\ last.lat.t = "num" /\ last.lon.t = "num") =>
              Calls("registry_by_number") = 0 /\ Calls("registry_by_point") = 1

\* what the claim says the extraction returns for a record
ClaimedCoordinates(plot_data) ==
    IF "center" \in DOMAIN plot_data /\ plot_data["center"].form # "bad"
    THEN Some([lat |-> plot_data["center"].lat, lon |-> plot_data["center"].lon])
    ELSE IF "extent" \in DOMAIN plot_data /\ plot_data["extent"].form # "bad"
    THEN Some([lat |-> (plot_data["extent"].ymin + plot_data["extent"].ymax) \div 2,
               lon |-> (plot_data["extent"].xmin + plot_data["extent"].xmax) \div 2])
    ELSE None

\* C25 (as stated): extraction returns the usable center, otherwise the
\* midpoint of the extent the record has; only when neither is usable does it
\* return nothing, and the call then returns status error without imagery or
\* classifier call.
C25_CenterThenExtent ==
    (Returned /\ Calls("extract_coordinates") = 1) =>
        /\ get_plot_coordinates(FoundRecord.v) = ClaimedCoordinates(FoundRecord.v)
        /\ ~ClaimedCoordinates(FoundRecord.v).some <=>
              /\ last.out.result = NoCoordinatesResult
              /\ Calls("imagery") = 0
              /\ Calls("classifier") = 0

\* C29 (as stated): a failure of the report writer does not change what the
\* operation returns: when the classification was made, analyze_single_plot
\* returns the status success result it assembled even if the result file
\* cannot be written.
C29_WriterFailureKeepsResult ==
    (Returned /\ Calls("classifier") = 1) =>
        /\ last.out.result.status = "success"
        /\ "analysis" \in DOMAIN last.out.result

RECURSIVE Contains(_, _)
Contains(s, token) ==
    s # <<>> /\ (Head(s) = token \/ Contains(Tail(s), token))

\* the record found has no cadastral number, a coordinate can be extracted,
\* the imagery service answers with an image, the model with a judgement, and
\* the disk takes every write
UnnumberedParcelAllFine ==
    /\ FoundRecord.some
    /\ DOMAIN FoundRecord.v # {}
    /\ Get(get_plot_details(FoundRecord.v), "cadastral_number", Absent) = NA
    /\ get_plot_coordinates(FoundRecord.v).some
    /\ last.env.img = "image"
    /\ last.env.api.kind = "text"
    /\ last.env.api.json = "ok"
    /\ last.env.disk_img = "ok"
    /\ last.env.disk_res = "ok"

\* C30 (as stated): for a record without cadastral number the image file
\* name holds no path separator, so with a valid image and a judgement the
\* call returns status success.
C30_UnnumberedParcelSucceeds ==
    (Returned /\ Calls("registry_by_point") = 1 /\ UnnumberedParcelAllFine) =>
        /\ ~Contains(SubSeq(ImagePath(get_plot_details(FoundRecord.v)),
                            Len(ImagesDir) + 2,
                            Len(ImagePath(get_plot_details(FoundRecord.v)))), "/")
        /\ last.out.result.status = "success"

(***************************************************************************)
(* Claims about the loop of analyze_area: cap, pacing, completion          *)
(***************************************************************************)
\* C26: whatever the number of records the query returned, the analyzer is
\* invoked at most max_plots times, only for records among the first
\* max_plots, and at most max_plots results are collected and returned.
C26_AtMostMaxPlots ==
    /\ Cardinality(Analyzed) <= max_plots
    /\ \A i \in Analyzed : log[i].rec \in 1..max_plots
    /\ Len(results) <= max_plots
    /\ area_out.returned => Len(area_out.ret) <= max_plots

\* the query returned more records than max_plots and the scan returned
\* max_plots results
C26_Witness ==
    /\ ScanReturned
    /\ max_plots >= 1
    /\ Len(plots) > max_plots
    /\ Len(area_out.ret) = max_plots

Slept == {i \in 1..Len(log) : log[i].ev = "sleep_2"}

\* C27: between any two consecutive analyzer invocations of a scan there is
\* a delay of 2 units, whatever the earlier one returned, and every delay
\* directly follows an analyzer invocation, so a skipped record adds none.
C27_PacedInvocations ==
    /\ \A i, j \in Analyzed : i < j => \E k \in Slept : i < k /\ k < j
    /\ \A k \in Slept : k > 1 /\ log[k - 1] = Event("analyze", log[k].rec)
    /\ Cardinality(Slept) = Len(results)

\* two invocations, the first of which found no record, with a delay between
C27_Witness ==
    /\ pc = "scanning"
    /\ Len(results) = 2
    /\ results[1].status = "not_found"
    /\ Cardinality(Analyzed) = 2
    /\ Cardinality(Slept) = 2

\* the loop visited every record of plots[:max_plots], analysed each record
\* with an extractable coordinate exactly once, and analyze_area returned
ScanComplete ==
    /\ area_out.returned
    /\ idx = Visited(plots, max_plots)
    /\ {log[i].rec : i \in Analyzed} = Located
    /\ Cardinality(Analyzed) = Cardinality(Located)
    /\ Len(results) = Cardinality(Located)

\* C28: a scan whose gateway calls all return or raise runs to completion
\* and returns; a not_found or error outcome or a skipped record does not
\* stop it, and every record among the first max_plots with an extractable
\* coordinate is analysed exactly once.
C28_ScanRunsToCompletion ==
    /\ [](pc = "scanned" => ScanComplete)
    /\ (pc = "scanning") ~> (pc = "scanned")

\* a completed scan in which an error result was followed by a success
C28_Witness ==
    /\ pc = "scanned"
    /\ ScanComplete
    /\ Len(results) = 2
    /\ results[1].status = "error"
    /\ results[2].status = "success"

(***************************************************************************)
(* Claim about the output directory (SpecFiles)                            *)
(***************************************************************************)
\* C22 (as stated): every artifact write creates a new file; no file written
\* earlier in the same or a previous operation is ever replaced.
C22_AppendOnly ==
    outdir.replaced = {}

====
